---- MODULE Spec2Model ----
(***************************************************************************)
(* The upload queue of src/utils/uploadQueue.ts (class UploadQueue).       *)
(*                                                                         *)
(* JavaScript runs every handler to completion on one thread, so each      *)
(* public method and each continuation of processUpload after its awaits   *)
(* is one atomic action.  processQueue is declared async but contains no   *)
(* await, so it runs synchronously inside its caller; processUpload runs   *)
(* synchronously up to its first await (line 63) and its continuation      *)
(* (lines 67-80) runs when the extraction call resolves.                   *)
(***************************************************************************)
EXTENDS Integers, Sequences, FiniteSets, TLC

MAX_CONCURRENT_UPLOADS == 5

\* Number of addUpload calls explored by Spec, which has every operation.
MaxUploads == 6

\* Number of jobs Spec lets removeUpload and clearCompleted delete.
MaxRemovals == 1

\* Number of addUpload calls explored by the specifications without removal.
MaxBacklogUploads == 7

\* Number of addUpload calls explored by SpecOutcomes, which has every outcome.
MaxOutcomeUploads == 3

\* Number of addUpload calls explored by SpecObservers, which has every observer.
MaxObserverUploads == 3

\* Number of handleImageUpload calls explored by SpecApp.
MaxAppUploads == 2

\* Number of saveRouteToHistory calls explored by SpecHistory.
MaxSaves == 3

\* Number of deleteRouteFromHistory, toggleFavorite and updateRouteName calls
\* explored by SpecHistory.
MaxEdits == 1

Ids == 1..(IF MaxUploads > MaxBacklogUploads THEN MaxUploads ELSE MaxBacklogUploads)

\* An optional field of PendingUpload: NONE is `undefined`, Some(x) a defined value x.
NONE == <<>>

Some(x) == <<x>>

VARIABLES
    pendingUploads,     \* Map<string, PendingUpload>, in insertion order
    processingUploads,  \* Set<string>
    callbacks,          \* keys of the Map id -> onUpdate
    inflight,           \* id -> number of processUpload calls suspended at an await
    revoked,            \* thumbnail -> number of URL.revokeObjectURL calls on it
    observers,          \* values of the Map id -> onUpdate: what each callback does
    nextId,             \* the next fresh id (Date.now() + random suffix)
    appPendingUploads,  \* App: the React state `pendingUploads`, a list of snapshots
    stops,              \* App: the React state `stops`, each stop with the upload it came from
    timers,             \* App: id -> number of pending setTimeout removals of that upload
    webhook,            \* one call of extractAddressesFromWebhook, with its recursive calls
    storage,            \* localStorage item 'aiRoutePlannerPro_routeHistory': NONE or the array it holds
    clock,              \* Date.now()
    nextRoute,          \* the next fresh route id
    lastCall,           \* history: the last call of a function of routeHistory.ts and its result
    written,            \* history: status writes (line 99) of the last handler
    emitted,            \* history: snapshots passed to callbacks (line 104) by the last handler
    removed,            \* history: ids deleted from the map by removeUpload
    queuedAtRetry,      \* history: id -> while id waits after a retry, the jobs that
                        \*          were 'pending' at the retry and still are
    requeued,           \* history: the jobs that are 'pending' because they were retried
    lastOp,             \* history: the handler that ran last
    recording           \* whether the history variables above are kept

vars == <<pendingUploads, processingUploads, callbacks, observers, inflight, revoked,
          nextId, appPendingUploads, stops, timers, webhook,
          storage, clock, nextRoute, lastCall, written, emitted, removed, queuedAtRetry, requeued, lastOp,
          recording>>

-----------------------------------------------------------------------------
\* Map<string, PendingUpload> as a sequence of records in insertion order.

Has(map, id) == \E i \in 1..Len(map) : map[i].id = id

IndexOf(map, id) == CHOOSE i \in 1..Len(map) : map[i].id = id

MapGet(map, id) == map[IndexOf(map, id)]

\* Map.prototype.set: an existing key keeps its position.
MapSet(map, id, u) ==
    IF Has(map, id) THEN [map EXCEPT ![IndexOf(map, id)] = u]
    ELSE Append(map, u)

MapDelete(map, id) == SelectSeq(map, LAMBDA u : u.id # id)

Keys(map) == {map[i].id : i \in 1..Len(map)}

MinOf(S) == CHOOSE x \in S : \A y \in S : x <= y

\* Statement sequencing: the value v of the statements so far is computed once
\* and the rest of the body, Rest, continues from it.
Then(v, Rest(_)) == CHOOSE r \in {Rest(x) : x \in {v}} : TRUE

-----------------------------------------------------------------------------
\* The queue object together with the history the handlers leave behind.

Cur == [pendingUploads    |-> pendingUploads,
        processingUploads |-> processingUploads,
        callbacks         |-> callbacks,
        observers         |-> observers,
        thrown            |-> NONE,
        appPendingUploads |-> appPendingUploads,
        stops             |-> stops,
        timers            |-> timers,
        inflight          |-> inflight,
        revoked           |-> revoked,
        written           |-> <<>>,
        emitted           |-> <<>>,
        removed           |-> removed,
        queuedAtRetry     |-> queuedAtRetry,
        requeued          |-> requeued]

Install(q) ==
    /\ pendingUploads' = q.pendingUploads
    /\ processingUploads' = q.processingUploads
    /\ callbacks' = q.callbacks
    /\ observers' = q.observers
    /\ appPendingUploads' = q.appPendingUploads
    /\ stops' = q.stops
    /\ timers' = q.timers
    /\ UNCHANGED <<webhook, storage, clock, nextRoute, lastCall>>
    /\ inflight' = q.inflight
    /\ revoked' = q.revoked
    /\ written' = IF recording THEN q.written ELSE <<>>
    /\ emitted' = IF recording THEN q.emitted ELSE <<>>
    /\ removed' = q.removed
    /\ queuedAtRetry' = IF recording THEN q.queuedAtRetry ELSE queuedAtRetry
    /\ requeued' = q.requeued
    /\ recording' = recording

\* The handler `op` ran last, on an id that stood for `target` when it started.
Ran(op, target) ==
    lastOp' = IF recording THEN [op |-> op, target |-> target] ELSE lastOp

\* One handler run to completion on the current state of the queue.
Run(Handler(_)) == \E q0 \in {Cur} : \E q \in {Handler(q0)} : Install(q)

\* The onUpdate functions the specifications register: one that only reads the
\* snapshot, two that throw when they are passed a given status, and one that
\* calls uploadQueue.retryUpload(id) when it is passed 'failed'.
ObserverKinds == {"plain", "throwsOnProcessing", "throwsOnCompleted", "retriesOnFailed"}

\* The value an observer throws: an Error.
ObserverError == [ok |-> FALSE, addresses |-> <<>>, isError |-> TRUE, message |-> "observer failed"]

RECURSIVE retryUpload(_, _)

\* The observer of App.handleImageUpload that also schedules the removal of an
\* upload completed with an empty address list.
appObserver_removesEmpty(q, upload) ==
    LET shown == \E i \in 1..Len(q.appPendingUploads) : q.appPendingUploads[i].id = upload.id
        q1 == [q EXCEPT !.appPendingUploads =
                  IF shown THEN [i \in 1..Len(@) |-> IF @[i].id = upload.id THEN upload ELSE @[i]]
                  ELSE Append(@, upload)]
    IN IF upload.status = "completed" /\ upload.addresses # NONE
       THEN LET addresses == upload.addresses[1]
            IN [q1 EXCEPT
                  !.stops = @ \o [i \in 1..Len(addresses) |->
                                    [upload |-> upload.id, address |-> addresses[i]]],
                  !.timers[upload.id] = @ + 1]
       ELSE q1

\* The observer App.handleImageUpload passes to addUpload (part_000 lines
\* 46-77). The state updaters of React are applied in the order of the calls,
\* so each is applied here where it is called.
appObserver(q, upload) ==
    LET shown == \E i \in 1..Len(q.appPendingUploads) : q.appPendingUploads[i].id = upload.id
        q1 == [q EXCEPT !.appPendingUploads =
                  IF shown THEN [i \in 1..Len(@) |-> IF @[i].id = upload.id THEN upload ELSE @[i]]
                  ELSE Append(@, upload)]
    IN IF upload.status = "completed" /\ upload.addresses # NONE /\ upload.addresses[1] # <<>>
       THEN LET addresses == upload.addresses[1]
            IN [q1 EXCEPT
                  !.stops = @ \o [i \in 1..Len(addresses) |->
                                    [upload |-> upload.id, address |-> addresses[i]]],
                  !.timers[upload.id] = @ + 1]
       ELSE q1

\* callback(updatedUpload) (line 104) for the observer registered for id; an
\* exception it throws is q.thrown and leaves updateUploadStatus with it.
callback(q, id, updatedUpload) ==
    LET onUpdate == q.observers[id]
    IN CASE onUpdate = "throwsOnProcessing" /\ updatedUpload.status = "processing" ->
                [q EXCEPT !.thrown = Some(ObserverError)]
         [] onUpdate = "throwsOnCompleted" /\ updatedUpload.status = "completed" ->
                [q EXCEPT !.thrown = Some(ObserverError)]
         [] onUpdate = "retriesOnFailed" /\ updatedUpload.status = "failed" ->
                retryUpload(q, id)
         [] onUpdate = "app" -> appObserver(q, updatedUpload)
         [] OTHER -> q

\* updateUploadStatus without the early return for a job that is not in the map:
\* the spread of `undefined` yields a record holding only the three new fields.
updateUploadStatus_noLookupGuard(q, id, status, addresses, error) ==
    LET present == Has(q.pendingUploads, id)
        upload == IF present THEN MapGet(q.pendingUploads, id)
                  ELSE [id |-> id, status |-> "absent", addresses |-> NONE,
                        error |-> NONE, thumbnail |-> NONE]
        updatedUpload == [upload EXCEPT !.status = status,
                                        !.addresses = addresses,
                                        !.error = error]
    IN Then([q EXCEPT
               !.pendingUploads = MapSet(@, id, updatedUpload),
               !.written = Append(@, [id |-> id, from |-> upload.status, to |-> status]),
               !.emitted = IF id \in q.callbacks THEN Append(@, updatedUpload) ELSE @],
            LAMBDA q1 : IF id \in q.callbacks THEN callback(q1, id, updatedUpload) ELSE q1)

\* updateUploadStatus that does not call the observer for a change to 'pending'.
updateUploadStatus_silentRequeue(q, id, status, addresses, error) ==
    IF ~Has(q.pendingUploads, id) THEN q
    ELSE LET upload == MapGet(q.pendingUploads, id)
             updatedUpload == [upload EXCEPT !.status = status,
                                             !.addresses = addresses,
                                             !.error = error]
         IN Then([q EXCEPT
                    !.pendingUploads = MapSet(@, id, updatedUpload),
                    !.written = Append(@, [id |-> id, from |-> upload.status, to |-> status]),
                    !.emitted = IF id \in q.callbacks /\ status # "pending"
                                THEN Append(@, updatedUpload) ELSE @],
                 LAMBDA q1 : IF id \in q.callbacks /\ status # "pending"
                             THEN callback(q1, id, updatedUpload) ELSE q1)

\* updateUploadStatus that writes `addresses` and `error` only when they are
\* passed, so that the fields of the previous status survive.
updateUploadStatus_keepsFields(q, id, status, addresses, error) ==
    IF ~Has(q.pendingUploads, id) THEN q
    ELSE LET upload == MapGet(q.pendingUploads, id)
             updatedUpload ==
                 [upload EXCEPT !.status = status,
                                !.addresses = IF addresses = NONE THEN @ ELSE addresses,
                                !.error = IF error = NONE THEN @ ELSE error]
         IN Then([q EXCEPT
                    !.pendingUploads = MapSet(@, id, updatedUpload),
                    !.written = Append(@, [id |-> id, from |-> upload.status, to |-> status]),
                    !.emitted = IF id \in q.callbacks THEN Append(@, updatedUpload) ELSE @],
                 LAMBDA q1 : IF id \in q.callbacks THEN callback(q1, id, updatedUpload) ELSE q1)

\* updateUploadStatus(id, status, addresses?, error?)
updateUploadStatus(q, id, status, addresses, error) ==
    IF ~Has(q.pendingUploads, id) THEN q
    ELSE LET upload == MapGet(q.pendingUploads, id)
             updatedUpload == [upload EXCEPT !.status = status,
                                             !.addresses = addresses,
                                             !.error = error]
         IN Then([q EXCEPT
                    !.pendingUploads = MapSet(@, id, updatedUpload),
                    !.written = Append(@, [id |-> id, from |-> upload.status, to |-> status]),
                    !.emitted = IF id \in q.callbacks THEN Append(@, updatedUpload) ELSE @],
                 LAMBDA q1 : IF id \in q.callbacks THEN callback(q1, id, updatedUpload) ELSE q1)

\* processUpload(id) up to its first await.
processUpload(q, id) ==
    IF ~Has(q.pendingUploads, id) THEN q
    ELSE [q EXCEPT !.inflight[id] = @ + 1]

\* find() replaced by a search from the end of the map: the newest pending entry.
FindNext_newest(q) ==
    LET map == q.pendingUploads
        cands == {i \in 1..Len(map) : /\ map[i].status = "pending"
                                      /\ map[i].id \notin q.processingUploads}
    IN IF cands = {} THEN 0 ELSE map[CHOOSE x \in cands : \A y \in cands : x >= y].id

\* find() whose predicate also accepts 'failed' entries.
FindNext_failedToo(q) ==
    LET map == q.pendingUploads
        cands == {i \in 1..Len(map) : /\ map[i].status \in {"pending", "failed"}
                                      /\ map[i].id \notin q.processingUploads}
    IN IF cands = {} THEN 0 ELSE map[MinOf(cands)].id

\* find() whose predicate lacks the test of the processing set.
FindNext_ignoresSet(q) ==
    LET map == q.pendingUploads
        cands == {i \in 1..Len(map) : map[i].status = "pending"}
    IN IF cands = {} THEN 0 ELSE map[MinOf(cands)].id

\* The first 'pending' entry of the map, in insertion order, not in the processing set.
FindNext(q) ==
    LET map == q.pendingUploads
        cands == {i \in 1..Len(map) : /\ map[i].status = "pending"
                                      /\ map[i].id \notin q.processingUploads}
    IN IF cands = {} THEN 0 ELSE map[MinOf(cands)].id

\* processQueue whose cap test is `>` instead of `>=`.
processQueue_capOffByOne(q) ==
    IF Cardinality(q.processingUploads) > MAX_CONCURRENT_UPLOADS THEN q
    ELSE Then(FindNext(q), LAMBDA next :
           IF next = 0 THEN q
           ELSE Then([q EXCEPT
                        !.processingUploads = @ \cup {next},
                        !.requeued = @ \ {next},
                        !.queuedAtRetry = [r \in Ids |->
                            IF r = next THEN {} ELSE @[r] \ {next}]],
                     LAMBDA q1 :
                Then(updateUploadStatus(q1, next, "processing", NONE, NONE),
                     LAMBDA q2 : IF q2.thrown # NONE THEN [q2 EXCEPT !.thrown = NONE]
                                 ELSE processUpload(q2, next))))

\* processQueue that starts the attempt without lines 50-51: the job is neither
\* put in the processing set nor marked 'processing'.
processQueue_noMark(q) ==
    IF Cardinality(q.processingUploads) >= MAX_CONCURRENT_UPLOADS THEN q
    ELSE Then(FindNext(q), LAMBDA next :
           IF next = 0 THEN q ELSE processUpload(q, next))

\* processQueue(): an async function, so an exception thrown in it (by the
\* observer, line 51) rejects the promise it returns, which no caller awaits.
processQueue(q) ==
    IF Cardinality(q.processingUploads) >= MAX_CONCURRENT_UPLOADS THEN q
    ELSE Then(FindNext(q), LAMBDA next :
           IF next = 0 THEN q
           ELSE Then([q EXCEPT
                        !.processingUploads = @ \cup {next},
                        !.requeued = @ \ {next},
                        !.queuedAtRetry = [r \in Ids |->
                            IF r = next THEN {} ELSE @[r] \ {next}]],
                     LAMBDA q1 :
                Then(updateUploadStatus(q1, next, "processing", NONE, NONE),
                     LAMBDA q2 : IF q2.thrown # NONE THEN [q2 EXCEPT !.thrown = NONE]
                                 ELSE processUpload(q2, next))))

\* addUpload(file, onUpdate) ; id is the fresh id, also used as the thumbnail handle.
addUpload(q, id, onUpdate) ==
    LET upload == [id |-> id, status |-> "pending", addresses |-> NONE,
                   error |-> NONE, thumbnail |-> Some(id)]
    IN Then([q EXCEPT !.pendingUploads = MapSet(@, id, upload),
                      !.callbacks = @ \cup {id},
                      !.observers[id] = onUpdate],
            LAMBDA q1 : processQueue(q1))

\* addUpload that stores the job before it allocates the preview: when
\* URL.createObjectURL throws, the job and its callback are already in the maps.
addUploadThrows_storedFirst(q, id) ==
    LET upload == [id |-> id, status |-> "pending", addresses |-> NONE,
                   error |-> NONE, thumbnail |-> NONE]
    IN [q EXCEPT !.pendingUploads = MapSet(@, id, upload),
                 !.callbacks = @ \cup {id},
                 !.observers[id] = "plain"]

\* addUpload(file, onUpdate) when URL.createObjectURL (line 15) throws: the
\* exception leaves addUpload before line 17.
addUploadThrows(q, id) == q

\* removeUpload that deletes the job without revoking its preview.
removeUpload_noRevoke(q, id) ==
    LET present == Has(q.pendingUploads, id)
    IN [q EXCEPT
          !.pendingUploads = MapDelete(@, id),
          !.callbacks = @ \ {id},
          !.observers[id] = "none",
          !.processingUploads = @ \ {id},
          !.removed = IF present THEN @ \cup {id} ELSE @,
          !.requeued = @ \ {id},
          !.queuedAtRetry = [r \in Ids |-> IF r = id THEN {} ELSE @[r] \ {id}]]

\* removeUpload that revokes the preview of the id without looking the job up.
removeUpload_alwaysRevoke(q, id) ==
    LET present == Has(q.pendingUploads, id)
        q1 == [q EXCEPT !.revoked[id] = @ + 1]
    IN [q1 EXCEPT
          !.pendingUploads = MapDelete(@, id),
          !.callbacks = @ \ {id},
          !.observers[id] = "none",
          !.processingUploads = @ \ {id},
          !.removed = IF present THEN @ \cup {id} ELSE @,
          !.requeued = @ \ {id},
          !.queuedAtRetry = [r \in Ids |-> IF r = id THEN {} ELSE @[r] \ {id}]]

\* removeUpload without line 137: the id stays in the processing set.
removeUpload_keepsSlot(q, id) ==
    LET present == Has(q.pendingUploads, id)
        q1 == IF present /\ MapGet(q.pendingUploads, id).thumbnail # NONE
              THEN [q EXCEPT !.revoked[MapGet(q.pendingUploads, id).thumbnail[1]] = @ + 1]
              ELSE q
    IN [q1 EXCEPT
          !.pendingUploads = MapDelete(@, id),
          !.callbacks = @ \ {id},
          !.observers[id] = "none",
          !.removed = IF present THEN @ \cup {id} ELSE @,
          !.requeued = @ \ {id},
          !.queuedAtRetry = [r \in Ids |-> IF r = id THEN {} ELSE @[r] \ {id}]]

\* removeUpload(id)
removeUpload(q, id) ==
    LET present == Has(q.pendingUploads, id)
        q1 == IF present /\ MapGet(q.pendingUploads, id).thumbnail # NONE
              THEN [q EXCEPT !.revoked[MapGet(q.pendingUploads, id).thumbnail[1]] = @ + 1]
              ELSE q
    IN [q1 EXCEPT
          !.pendingUploads = MapDelete(@, id),
          !.callbacks = @ \ {id},
          !.observers[id] = "none",
          !.processingUploads = @ \ {id},
          !.removed = IF present THEN @ \cup {id} ELSE @,
          !.requeued = @ \ {id},
          !.queuedAtRetry = [r \in Ids |-> IF r = id THEN {} ELSE @[r] \ {id}]]

\* retryUpload without the test of the current status.
retryUpload_anyStatus(q, id) ==
    IF ~Has(q.pendingUploads, id) THEN q
    ELSE LET queued == {u \in Keys(q.pendingUploads) :
                           MapGet(q.pendingUploads, u).status = "pending"}
         IN Then([q EXCEPT !.requeued = @ \cup {id}, !.queuedAtRetry[id] = queued],
                 LAMBDA q1 :
            Then(updateUploadStatus(q1, id, "pending", NONE, NONE), LAMBDA q2 :
            IF q2.thrown # NONE THEN q2 ELSE processQueue(q2)))

\* retryUpload that deletes the entry and inserts it again, at the end of the map.
retryUpload_toBack(q, id) ==
    IF ~Has(q.pendingUploads, id) \/ MapGet(q.pendingUploads, id).status # "failed" THEN q
    ELSE LET queued == {u \in Keys(q.pendingUploads) :
                           MapGet(q.pendingUploads, u).status = "pending"}
             upload == MapGet(q.pendingUploads, id)
         IN Then([q EXCEPT !.requeued = @ \cup {id}, !.queuedAtRetry[id] = queued,
                           !.pendingUploads = Append(MapDelete(@, id), upload)],
                 LAMBDA q1 :
            Then(updateUploadStatus(q1, id, "pending", NONE, NONE), LAMBDA q2 :
            IF q2.thrown # NONE THEN q2 ELSE processQueue(q2)))

\* retryUpload without the call of processQueue() (line 146).
retryUpload_noSweep(q, id) ==
    IF ~Has(q.pendingUploads, id) \/ MapGet(q.pendingUploads, id).status # "failed" THEN q
    ELSE LET queued == {u \in Keys(q.pendingUploads) :
                           MapGet(q.pendingUploads, u).status = "pending"}
         IN Then([q EXCEPT !.requeued = @ \cup {id}, !.queuedAtRetry[id] = queued],
                 LAMBDA q1 : updateUploadStatus(q1, id, "pending", NONE, NONE))

\* retryUpload(id); an exception of the observer leaves it before line 146.
retryUpload(q, id) ==
    IF ~Has(q.pendingUploads, id) \/ MapGet(q.pendingUploads, id).status # "failed" THEN q
    ELSE LET queued == {u \in Keys(q.pendingUploads) :
                           MapGet(q.pendingUploads, u).status = "pending"}
         IN Then([q EXCEPT !.requeued = @ \cup {id}, !.queuedAtRetry[id] = queued],
                 LAMBDA q1 :
            Then(updateUploadStatus(q1, id, "pending", NONE, NONE), LAMBDA q2 :
            IF q2.thrown # NONE THEN q2 ELSE processQueue(q2)))

RECURSIVE removeAll(_, _)
removeAll(q, ids) ==
    IF ids = <<>> THEN q
    ELSE Then(removeUpload(q, Head(ids)), LAMBDA q1 : removeAll(q1, Tail(ids)))

\* clearCompleted whose filter also selects the 'failed' jobs.
clearCompleted_failedToo(q) ==
    LET completed == SelectSeq(q.pendingUploads,
                               LAMBDA u : u.status \in {"completed", "failed"})
        completedIds == [i \in 1..Len(completed) |-> completed[i].id]
    IN removeAll(q, completedIds)

\* clearCompleted()
clearCompleted(q) ==
    LET completed == SelectSeq(q.pendingUploads, LAMBDA u : u.status = "completed")
        completedIds == [i \in 1..Len(completed) |-> completed[i].id]
    IN removeAll(q, completedIds)

\* App.handleImageUpload(file): the id is the one addUpload returns; the
\* preview handle the App allocates (part_000 line 85) is its own, written -id.
handleImageUpload(q, id) ==
    Then(addUpload(q, id, "app"), LAMBDA q1 :
         LET newUpload == [id |-> id, status |-> "pending", addresses |-> NONE,
                           error |-> NONE, thumbnail |-> Some(0 - id)]
         IN [q1 EXCEPT !.appPendingUploads = Append(@, newUpload)])

\* App.dismissUpload(id)
dismissUpload(q, id) ==
    Then([q EXCEPT !.appPendingUploads = SelectSeq(@, LAMBDA u : u.id # id)],
         LAMBDA q1 : removeUpload(q1, id))

\* The function App's observer passes to setTimeout (part_000 lines 66-69), when it runs.
autoRemove(q, id) ==
    Then([q EXCEPT !.timers[id] = @ - 1,
                   !.appPendingUploads = SelectSeq(@, LAMBDA u : u.id # id)],
         LAMBDA q1 : removeUpload(q1, id))

\* What an extraction attempt (fileToBase64, then extractAddressesFromWebhook) ends with.
Outcomes ==
    { [ok |-> TRUE,  addresses |-> <<>>,       isError |-> FALSE, message |-> ""],
      [ok |-> TRUE,  addresses |-> <<"addr">>, isError |-> FALSE, message |-> ""],
      [ok |-> FALSE, addresses |-> <<>>,       isError |-> TRUE,  message |-> "Failed to read file"],
      [ok |-> FALSE, addresses |-> <<>>,       isError |-> FALSE, message |-> ""] }

\* The catch clause without the `instanceof Error` test.
errorMessage_noInstanceTest(o) == o.message

\* const errorMessage = error instanceof Error ? error.message : 'Unknown error occurred'
errorMessage(o) == IF o.isError THEN o.message ELSE "Unknown error occurred"

\* processUpload that treats an empty address list as a failure.
resumeUpload_emptyFails(q, id, o) ==
    Then([q EXCEPT !.inflight[id] = @ - 1], LAMBDA q0 :
    Then(IF o.ok /\ o.addresses # <<>>
         THEN updateUploadStatus(q0, id, "completed", Some(o.addresses), NONE)
         ELSE updateUploadStatus(q0, id, "failed", NONE, Some("No addresses found")),
         LAMBDA q1 :
    Then([q1 EXCEPT !.processingUploads = @ \ {id},
                    !.thrown = NONE],
         LAMBDA q2 : processQueue(q2))))

\* processUpload whose `finally` frees the slot without calling processQueue().
resumeUpload_noSweep(q, id, o) ==
    Then([q EXCEPT !.inflight[id] = @ - 1], LAMBDA q0 :
    Then(IF o.ok THEN updateUploadStatus(q0, id, "completed", Some(o.addresses), NONE)
         ELSE [q0 EXCEPT !.thrown = Some(o)],
         LAMBDA q1 :
    Then(IF q1.thrown = NONE THEN q1
         ELSE updateUploadStatus([q1 EXCEPT !.thrown = NONE], id, "failed", NONE,
                                 Some(errorMessage(q1.thrown[1]))),
         LAMBDA q2 :
         [q2 EXCEPT !.processingUploads = @ \ {id},
                    !.thrown = NONE])))

\* processUpload(id) from the resolution of its awaits to its end (lines 67-80):
\* the try block ends with the 'completed' update or with the exception o of
\* the awaits, the catch clause handles whatever was thrown in the try block,
\* the observer's exception included, and the finally clause runs in every
\* case; an exception of the catch clause rejects the promise nobody awaits.
resumeUpload(q, id, o) ==
    Then([q EXCEPT !.inflight[id] = @ - 1], LAMBDA q0 :
    Then(IF o.ok THEN updateUploadStatus(q0, id, "completed", Some(o.addresses), NONE)
         ELSE [q0 EXCEPT !.thrown = Some(o)],
         LAMBDA q1 :
    Then(IF q1.thrown = NONE THEN q1
         ELSE updateUploadStatus([q1 EXCEPT !.thrown = NONE], id, "failed", NONE,
                                 Some(errorMessage(q1.thrown[1]))),
         LAMBDA q2 :
    Then([q2 EXCEPT !.processingUploads = @ \ {id},
                    !.thrown = NONE],
         LAMBDA q3 : processQueue(q3)))))

-----------------------------------------------------------------------------

-----------------------------------------------------------------------------
\* extractAddressesFromWebhook (part_001).

\* An element of a JSON array: a string with its text, or a value that is not a string.
Str(text) == [isString |-> TRUE, text |-> text]

NotStr == [isString |-> FALSE, text |-> ""]

\* item.trim(), on the texts used here.
Trim(text) == IF text = " " THEN "" ELSE text

\* The arrays a response carries.
Arrays == { <<>>, <<Str("addr")>>, <<Str(" ")>>, <<NotStr>>, <<Str("addr"), Str(" ")>>,
            <<Str("addr"), NotStr>> }

\* What one fetch of the webhook ends with: the rejection of fetch (abort by
\* the timeout, a network TypeError, a thrown value that is not an Error), a
\* response with its status, and for an ok response the parsed body: an
\* array, an object, or another JSON value; `invalid` is a body response.json()
\* rejects. success is "true", "false" or "absent".
Reply(type, status, success, error, message, addresses, data, array) ==
    [type |-> type, status |-> status, success |-> success, error |-> error,
     message |-> message, addresses |-> addresses, data |-> data, array |-> array]

Responses ==
    { Reply(t, 0, "absent", NONE, NONE, NONE, NONE, <<>>) :
          t \in {"abort", "network", "nonError", "invalid", "otherJson"} }
    \cup { Reply("status", s, "absent", NONE, NONE, NONE, NONE, <<>>) : s \in {429, 500} }
    \cup { Reply("array", 200, "absent", NONE, NONE, NONE, NONE, a) : a \in Arrays }
    \cup { Reply("object", 200, "false", e, m, NONE, NONE, <<>>) :
              e \in {NONE, Some("cannot fetch image")}, m \in {NONE, Some("quota exceeded")} }
    \cup { Reply("object", 200, s, NONE, NONE, Some(a), NONE, <<>>) :
              s \in {"true", "absent"}, a \in Arrays }
    \cup { Reply("object", 200, "true", NONE, NONE, NONE, d, <<>>) :
              d \in {NONE, Some(<<>>), Some(<<Str("addr")>>)} }

\* error.message.includes('fetch'), on the messages used here.
IncludesFetch(message) == message \in {"Failed to fetch", "cannot fetch image"}

Resolved(addresses) ==
    [kind |-> "resolve", delay |-> 0,
     outcome |-> [ok |-> TRUE, addresses |-> addresses, isError |-> FALSE, message |-> ""]]

\* The catch clause (lines 104-116) for an Error with this name and message.
Rejected(name, message) ==
    [kind |-> "reject", delay |-> 0,
     outcome |-> [ok |-> FALSE, addresses |-> <<>>, isError |-> TRUE,
                  message |-> IF name = "AbortError"
                              THEN "Request timeout: Webhook took too long to respond"
                              ELSE IF IncludesFetch(message)
                              THEN "Network error: Could not connect to webhook"
                              ELSE message]]

\* await new Promise(resolve => setTimeout(resolve, delay)), then the recursive call.
Retried(delay) == [kind |-> "retry", delay |-> delay, outcome |-> NONE]

\* 2^retryCount * 1000
Backoff(retryCount) == IF retryCount = 0 THEN 1000 ELSE IF retryCount = 1 THEN 2000 ELSE 4000

\* `retryCount < 2` replaced by `retryCount <= 2`.
mayRetry_offByOne(retryCount) == retryCount <= 2

\* retryCount < 2 (lines 45, 59, 93)
mayRetry(retryCount) == retryCount < 2

\* One call of extractAddressesFromWebhook from the end of its fetch: what it
\* does with the reply r (lines 43-116).
onReply(retryCount, r) ==
    CASE r.type = "abort" -> Rejected("AbortError", "The operation was aborted.")
      [] r.type = "network" -> Rejected("TypeError", "Failed to fetch")
      [] r.type = "nonError" ->
            Rejected("Error", "Could not extract addresses from image via webhook.")
      [] r.type = "invalid" -> Rejected("SyntaxError", "Unexpected token < in JSON")
      [] r.type = "status" ->
            IF r.status = 429 /\ mayRetry(retryCount) THEN Retried(Backoff(retryCount))
            ELSE Rejected("Error", "Webhook request failed")
      [] r.type = "array" ->
            LET addresses == SelectSeq(r.array, LAMBDA item :
                                 item.isString /\ Trim(item.text) # "")
            IN IF addresses = <<>> /\ mayRetry(retryCount) THEN Retried(1000)
               ELSE Resolved([i \in 1..Len(addresses) |-> addresses[i].text])
      [] r.type = "object" ->
            IF r.success = "false"
            THEN Rejected("Error", IF r.error # NONE THEN r.error[1]
                                   ELSE IF r.message # NONE THEN r.message[1]
                                   ELSE "Unknown error from webhook")
            ELSE IF r.addresses = NONE /\ r.data = NONE
            THEN Rejected("Error", "Unexpected response format from webhook")
            ELSE LET addresses == IF r.addresses # NONE THEN r.addresses[1] ELSE r.data[1]
                     validAddresses == SelectSeq(addresses, LAMBDA addr : Trim(addr.text) # "")
                 IN IF \E i \in 1..Len(addresses) : ~addresses[i].isString
                    THEN Rejected("Error", "Invalid address format in response")
                    ELSE IF validAddresses = <<>> /\ mayRetry(retryCount) THEN Retried(1000)
                    ELSE Resolved([i \in 1..Len(validAddresses) |-> validAddresses[i].text])
      [] OTHER -> Rejected("Error", "Unexpected response format from webhook")

-----------------------------------------------------------------------------
\* The route history (src/utils/routeHistory.ts). A route is its id, name,
\* timestamp and isFavorite; its stops and routeOption are carried unchanged.

MAX_HISTORY == 50

\* The least element of a set of positions, 0 when it is empty.
Min0(S) == IF S = {} THEN 0 ELSE MinOf(S)

\* The comparison function of getRouteHistory (lines 56-60).
Compare(a, b) ==
    IF a.isFavorite /\ ~b.isFavorite THEN 0 - 1
    ELSE IF ~a.isFavorite /\ b.isFavorite THEN 1
    ELSE b.timestamp - a.timestamp

\* r, which stood before every element of the sorted list s, put in its place.
RECURSIVE InsertRoute(_, _)
InsertRoute(r, s) ==
    IF s = <<>> THEN <<r>>
    ELSE IF Compare(r, Head(s)) > 0 THEN <<Head(s)>> \o InsertRoute(r, Tail(s))
    ELSE <<r>> \o s

\* Array.prototype.sort with Compare: a stable sort.
RECURSIVE SortRoutes(_)
SortRoutes(history) ==
    IF history = <<>> THEN <<>>
    ELSE InsertRoute(Head(history), SortRoutes(Tail(history)))

\* getRouteHistory(), on the item `item` of localStorage.
getRouteHistory(item) == IF item = NONE THEN <<>> ELSE SortRoutes(item[1])

\* saveRouteToHistory that adds the route at the end of the list (push).
saveRouteToHistory_push(item, id, name, now) ==
    LET history == getRouteHistory(item)
        newRoute == [id |-> id, name |-> name, timestamp |-> now, isFavorite |-> FALSE]
        added == Append(history, newRoute)
    IN IF Len(added) > MAX_HISTORY THEN SubSeq(added, 1, MAX_HISTORY) ELSE added

\* The list saveRouteToHistory(name, stops) stores (lines 20-36).
saveRouteToHistory(item, id, name, now) ==
    LET history == getRouteHistory(item)
        newRoute == [id |-> id, name |-> name, timestamp |-> now, isFavorite |-> FALSE]
        added == <<newRoute>> \o history
    IN IF Len(added) > MAX_HISTORY THEN SubSeq(added, 1, MAX_HISTORY) ELSE added

\* The list deleteRouteFromHistory(id) stores (lines 77-78).
deleteRouteFromHistory(item, id) ==
    SelectSeq(getRouteHistory(item), LAMBDA route : route.id # id)

\* history.find(r => r.id === id) finds a route.
FoundIn(history, id) == \E i \in 1..Len(history) : history[i].id = id

\* The list toggleFavorite(id) stores when it finds the route (lines 90-95).
toggleFavorite(item, id) ==
    LET history == getRouteHistory(item)
        found == Min0({j \in 1..Len(history) : history[j].id = id})
    IN [i \in 1..Len(history) |->
           IF i = found THEN [history[i] EXCEPT !.isFavorite = ~@] ELSE history[i]]

\* The list updateRouteName(id, newName) stores when it finds the route (lines 107-112).
updateRouteName(item, id, newName) ==
    LET history == getRouteHistory(item)
        found == Min0({j \in 1..Len(history) : history[j].id = id})
    IN [i \in 1..Len(history) |->
           IF i = found THEN [history[i] EXCEPT !.name = newName] ELSE history[i]]

\* A history of n routes saved one after the other, none a favourite.
SavedEarlier(n) == [i \in 1..n |-> [id |-> n + 1 - i, name |-> "route",
                                    timestamp |-> n + 1 - i, isFavorite |-> FALSE]]

\* The two outcomes the specifications below resolve attempts with: a
\* non-empty address list, and a rejection with an Error.
SomeOutcomes == {o \in Outcomes : o.isError \/ (o.ok /\ o.addresses # <<>>)}

\* getUpload(id)?.status
StatusIn(map, id) == IF Has(map, id) THEN MapGet(map, id).status ELSE "absent"

StatusOf(id) == StatusIn(pendingUploads, id)

\* What the id passed to a handler names when the handler starts.
TargetOf(id) ==
    IF Has(pendingUploads, id) THEN MapGet(pendingUploads, id).status
    ELSE IF id \in removed THEN "removed" ELSE "unknown"

CompletedIds == {id \in Keys(pendingUploads) : StatusOf(id) = "completed"}

\* The state at the start, localStorage holding the n routes of earlier sessions.
InitStored(rec, n) ==
    /\ pendingUploads = <<>>
    /\ processingUploads = {}
    /\ callbacks = {}
    /\ observers = [i \in Ids |-> "none"]
    /\ appPendingUploads = <<>>
    /\ stops = <<>>
    /\ timers = [i \in Ids |-> 0]
    /\ webhook = [pc |-> "idle", retryCount |-> 0, requests |-> 0, delay |-> 0,
                  responses |-> <<>>, outcome |-> NONE]
    /\ storage = IF n = 0 THEN NONE ELSE Some(SavedEarlier(n))
    /\ clock = n
    /\ nextRoute = n + 1
    /\ lastCall = [op |-> "none", id |-> 0, result |-> "none", saves |-> 0, edits |-> 0]
    /\ inflight = [i \in Ids |-> 0]
    /\ revoked = [i \in Ids |-> 0]
    /\ nextId = 1
    /\ written = <<>>
    /\ emitted = <<>>
    /\ removed = {}
    /\ queuedAtRetry = [i \in Ids |-> {}]
    /\ requeued = {}
    /\ lastOp = [op |-> "new", target |-> "none"]
    /\ recording = rec

\* The state at the start with nothing in localStorage.
InitWith(rec) == InitStored(rec, 0)

\* The queue right after `new UploadQueue()` (line 159).
Init == InitWith(TRUE)

\* uploadQueue.addUpload(file, onUpdate) with an observer that only reads the
\* snapshot, for at most `limit` calls.
AddUpload(limit) ==
    /\ nextId <= limit
    /\ Run(LAMBDA q : addUpload(q, nextId, "plain"))
    /\ nextId' = nextId + 1
    /\ Ran("addUpload", "none")

\* uploadQueue.addUpload(file, onUpdate) with a file for which
\* URL.createObjectURL throws.
AddUploadThrows ==
    /\ Run(LAMBDA q : addUploadThrows(q, nextId))
    /\ Ran("addUpload", "throws")
    /\ UNCHANGED nextId

\* uploadQueue.addUpload(file, onUpdate) with an observer of one of `kinds`.
AddUploadObserved(limit, kinds) ==
    /\ nextId <= limit
    /\ \E onUpdate \in kinds :
          Run(LAMBDA q : addUpload(q, nextId, onUpdate))
    /\ nextId' = nextId + 1
    /\ Ran("addUpload", "none")

\* The awaits of processUpload(id) resolve with outcome o.
Resolve(id, o) ==
    /\ inflight[id] > 0
    /\ Run(LAMBDA q : resumeUpload(q, id, o))
    /\ Ran("resolve", TargetOf(id))
    /\ UNCHANGED nextId

\* uploadQueue.removeUpload(id), for any id; at most MaxRemovals jobs are deleted.
RemoveUpload(id) ==
    /\ Has(pendingUploads, id) => Cardinality(removed) < MaxRemovals
    /\ Run(LAMBDA q : removeUpload(q, id))
    /\ Ran("removeUpload", TargetOf(id))
    /\ UNCHANGED nextId

\* uploadQueue.retryUpload(id), for any id.
RetryUpload(id) ==
    /\ Run(LAMBDA q : retryUpload(q, id))
    /\ Ran("retryUpload", TargetOf(id))
    /\ UNCHANGED nextId

\* App.handleImageUpload(file), for at most `limit` calls.
HandleImageUpload(limit) ==
    /\ nextId <= limit
    /\ Run(LAMBDA q : handleImageUpload(q, nextId))
    /\ nextId' = nextId + 1
    /\ Ran("handleImageUpload", "none")

\* App.dismissUpload(id), from the card of an upload the list shows.
DismissUpload(id) ==
    /\ \E i \in 1..Len(appPendingUploads) : appPendingUploads[i].id = id
    /\ Run(LAMBDA q : dismissUpload(q, id))
    /\ Ran("dismissUpload", TargetOf(id))
    /\ UNCHANGED nextId

\* A removal scheduled by the App's observer (setTimeout, 3 s) runs.
TimerFires(id) ==
    /\ timers[id] > 0
    /\ Run(LAMBDA q : autoRemove(q, id))
    /\ Ran("autoRemove", TargetOf(id))
    /\ UNCHANGED nextId

\* Everything but the call of extractAddressesFromWebhook.
appVars == <<pendingUploads, processingUploads, callbacks, observers, inflight, revoked,
             nextId, appPendingUploads, stops, timers, written, emitted, removed,
             queuedAtRetry, requeued, lastOp, recording>>

\* The route history, outside the queue and the webhook.
routeVars == <<storage, clock, nextRoute, lastCall>>

\* extractAddressesFromWebhook(base64Image, mimeType) is called: retryCount
\* is 0 and the first fetch is sent.
Extract ==
    /\ webhook.pc \in {"idle", "done"}
    /\ webhook' = [pc |-> "fetching", retryCount |-> 0, requests |-> 1, delay |-> 0,
                   responses |-> <<>>, outcome |-> NONE]
    /\ UNCHANGED <<appVars, routeVars>>

\* The fetch ends with reply r and the call runs to its return, its throw or
\* its next await.
Respond(r) ==
    /\ webhook.pc = "fetching"
    /\ \E step \in {onReply(webhook.retryCount, r)} :
          webhook' = [webhook EXCEPT
                         !.pc = IF step.kind = "retry" THEN "sleeping" ELSE "done",
                         !.delay = step.delay,
                         !.responses = Append(@, r),
                         !.outcome = IF step.kind = "retry" THEN NONE ELSE Some(step.outcome)]
    /\ UNCHANGED <<appVars, routeVars>>

\* The delay is over: the recursive call with retryCount + 1 sends its fetch.
RetryFetch ==
    /\ webhook.pc = "sleeping"
    /\ webhook' = [webhook EXCEPT !.pc = "fetching", !.retryCount = @ + 1,
                                  !.requests = @ + 1, !.delay = 0]
    /\ UNCHANGED <<appVars, routeVars>>

\* saveRouteToHistory(name, stops): Date.now() has advanced by `tick` since the
\* last call; `full` is whether localStorage.setItem throws (quota exceeded).
SaveRouteToHistory(tick, full) ==
    /\ lastCall.saves < MaxSaves
    /\ clock' = clock + tick
    /\ nextRoute' = nextRoute + 1
    /\ storage' = IF full THEN storage
                  ELSE Some(saveRouteToHistory(storage, nextRoute, "route", clock'))
    /\ lastCall' = [lastCall EXCEPT !.op = "saveRouteToHistory", !.id = nextRoute,
                                    !.result = IF full THEN "threw" ELSE "id",
                                    !.saves = @ + 1]
    /\ UNCHANGED <<appVars, webhook>>

\* deleteRouteFromHistory(id); `full` as above.
DeleteRouteFromHistory(id, full) ==
    /\ lastCall.edits < MaxEdits
    /\ storage' = IF full THEN storage ELSE Some(deleteRouteFromHistory(storage, id))
    /\ lastCall' = [lastCall EXCEPT !.op = "deleteRouteFromHistory", !.id = id,
                                    !.result = IF full THEN "false" ELSE "true",
                                    !.edits = @ + 1]
    /\ UNCHANGED <<appVars, webhook, clock, nextRoute>>

\* toggleFavorite(id); `full` as above.
ToggleFavorite(id, full) ==
    /\ lastCall.edits < MaxEdits
    /\ LET found == FoundIn(getRouteHistory(storage), id)
       IN /\ storage' = IF found /\ ~full THEN Some(toggleFavorite(storage, id)) ELSE storage
          /\ lastCall' = [lastCall EXCEPT !.op = "toggleFavorite", !.id = id,
                                          !.result = IF found /\ ~full THEN "isFavorite"
                                                     ELSE "false",
                                          !.edits = @ + 1]
    /\ UNCHANGED <<appVars, webhook, clock, nextRoute>>

\* updateRouteName(id, newName); `full` as above.
UpdateRouteName(id, newName, full) ==
    /\ lastCall.edits < MaxEdits
    /\ LET found == FoundIn(getRouteHistory(storage), id)
       IN /\ storage' = IF found /\ ~full THEN Some(updateRouteName(storage, id, newName))
                        ELSE storage
          /\ lastCall' = [lastCall EXCEPT !.op = "updateRouteName", !.id = id,
                                          !.result = IF found /\ ~full THEN "true" ELSE "false",
                                          !.edits = @ + 1]
    /\ UNCHANGED <<appVars, webhook, clock, nextRoute>>

\* The ids the editing functions are called with: the route at the head of the
\* stored list, the route at its end, and an id that is not stored.
EditTargets ==
    LET history == getRouteHistory(storage)
    IN {0} \cup {history[i].id : i \in {1, Len(history)} \cap (1..Len(history))}

\* uploadQueue.clearCompleted()
ClearAllCompleted ==
    /\ Run(LAMBDA q : clearCompleted(q))
    /\ Ran("clearCompleted", "none")
    /\ UNCHANGED nextId

\* uploadQueue.clearCompleted(); at most MaxRemovals jobs are deleted.
ClearCompleted ==
    /\ Cardinality(removed) + Cardinality(CompletedIds) <= MaxRemovals
    /\ ClearAllCompleted

\* Every operation of the queue, each called where it has an effect:
\* removeUpload on a job in the map, retryUpload on a failed job,
\* clearCompleted when a job is completed.
Next ==
    \/ AddUpload(MaxUploads)
    \/ \E id \in Ids, o \in SomeOutcomes : Resolve(id, o)
    \/ \E id \in Keys(pendingUploads) : RemoveUpload(id)
    \/ \E id \in {i \in Keys(pendingUploads) : StatusOf(i) = "failed"} : RetryUpload(id)
    \/ CompletedIds # {} /\ ClearCompleted

Spec == Init /\ [][Next]_vars

\* Every operation of the queue, removeUpload and retryUpload called on any id
\* (a job in any status, a removed job, an id never submitted).
NextCalls ==
    \/ AddUpload(MaxUploads)
    \/ \E id \in Ids, o \in SomeOutcomes : Resolve(id, o)
    \/ \E id \in Ids : RemoveUpload(id)
    \/ \E id \in Ids : RetryUpload(id)
    \/ ClearCompleted

SpecCalls == Init /\ [][NextCalls]_vars

\* Submissions, completions and retries, with a backlog of two behind a full cap.
NextBacklog ==
    \/ AddUpload(MaxBacklogUploads)
    \/ \E id \in Ids, o \in SomeOutcomes : Resolve(id, o)
    \/ \E id \in {i \in Keys(pendingUploads) : StatusOf(i) = "failed"} : RetryUpload(id)

SpecBacklog == Init /\ [][NextBacklog]_vars

\* NextBacklog where every extraction attempt in flight eventually resolves,
\* without the history variables. Resolve(id, o) is enabled exactly while
\* inflight[id] > 0 and leaves inflight[id] = 0, so weak fairness of the
\* resolution of each id is []<>(inflight[id] = 0).
SpecBacklogFair ==
    /\ InitWith(FALSE)
    /\ [][NextBacklog]_vars
    /\ WF_vars(\E id \in Ids, o \in SomeOutcomes : Resolve(id, o))
    /\ \A id \in Ids : []<>(inflight[id] = 0)

\* Scenario A: submissions and completions only.
NextSubmit ==
    \/ AddUpload(MaxBacklogUploads)
    \/ \E id \in Ids, o \in SomeOutcomes : Resolve(id, o)

SpecSubmit == Init /\ [][NextSubmit]_vars

\* A backlog of two behind a full cap, with removals and without retries.
NextBacklogRemove ==
    \/ AddUpload(MaxBacklogUploads)
    \/ \E id \in Ids, o \in SomeOutcomes : Resolve(id, o)
    \/ \E id \in Keys(pendingUploads) : RemoveUpload(id)

SpecBacklogRemove == Init /\ [][NextBacklogRemove]_vars

\* Few jobs, every outcome of an attempt (an empty address list and a thrown
\* value that is not an Error included), a failing preview allocation, and
\* removeUpload and retryUpload on any id.
NextOutcomes ==
    \/ AddUpload(MaxOutcomeUploads)
    \/ AddUploadThrows
    \/ \E id \in Ids, o \in Outcomes : Resolve(id, o)
    \/ \E id \in Ids : RemoveUpload(id)
    \/ \E id \in Ids : RetryUpload(id)
    \/ ClearCompleted

SpecOutcomes == Init /\ [][NextOutcomes]_vars

\* Few jobs with every kind of observer: submissions, resolutions, retries of
\* failed jobs and removals.
NextObservers ==
    \/ AddUpload(MaxObserverUploads)
    \/ AddUploadObserved(MaxObserverUploads, ObserverKinds \ {"plain"})
    \/ \E id \in Ids, o \in SomeOutcomes : Resolve(id, o)
    \/ \E id \in {i \in Keys(pendingUploads) : StatusOf(i) = "failed"} : RetryUpload(id)
    \/ \E id \in Keys(pendingUploads) : RemoveUpload(id)

SpecObservers == Init /\ [][NextObservers]_vars

\* A backlog behind a full cap, with clearCompleted called at any time.
NextClear ==
    \/ AddUpload(MaxBacklogUploads)
    \/ \E id \in Ids, o \in SomeOutcomes : Resolve(id, o)
    \/ ClearAllCompleted

SpecClear == Init /\ [][NextClear]_vars

\* The App: uploads submitted by handleImageUpload, every outcome of an
\* attempt, retry of a failed upload, dismissal, and the scheduled removals.
NextApp ==
    \/ HandleImageUpload(MaxAppUploads)
    \/ \E id \in Ids, o \in Outcomes : Resolve(id, o)
    \/ \E id \in {i \in Keys(pendingUploads) : StatusOf(i) = "failed"} : RetryUpload(id)
    \/ \E id \in Ids : DismissUpload(id)
    \/ \E id \in Ids : TimerFires(id)

\* Every timer the App has set eventually runs.
SpecApp ==
    /\ Init
    /\ [][NextApp]_vars
    /\ \A id \in Ids : WF_vars(TimerFires(id))

\* Calls of extractAddressesFromWebhook, one at a time, with every reply.
NextWebhook ==
    \/ Extract
    \/ \E r \in Responses : Respond(r)
    \/ RetryFetch

\* Every fetch ends (the timeout of line 30 aborts it otherwise) and every
\* delay ends.
SpecWebhook ==
    /\ Init
    /\ [][NextWebhook]_vars
    /\ WF_vars(\E r \in Responses : Respond(r))
    /\ WF_vars(RetryFetch)

\* The route history at the start: nothing stored, or MAX_HISTORY - 1 routes
\* saved in earlier sessions.
InitHistory == \E n \in {0, MAX_HISTORY - 1} : InitStored(TRUE, n)

\* Calls of the functions of routeHistory.ts in any order.
NextHistory ==
    \/ \E tick \in {0, 1}, full \in BOOLEAN : SaveRouteToHistory(tick, full)
    \/ \E id \in EditTargets, full \in BOOLEAN : DeleteRouteFromHistory(id, full)
    \/ \E id \in EditTargets, full \in BOOLEAN : ToggleFavorite(id, full)
    \/ \E id \in EditTargets, full \in BOOLEAN : UpdateRouteName(id, "renamed", full)

SpecHistory == InitHistory /\ [][NextHistory]_vars

\* Jobs whose observer retries from inside the 'failed' notification, up to
\* the cap and one job more, with removals.
NextReentrant ==
    \/ AddUploadObserved(MaxUploads, {"retriesOnFailed"})
    \/ \E id \in Ids, o \in SomeOutcomes : Resolve(id, o)
    \/ \E id \in Keys(pendingUploads) : RemoveUpload(id)

SpecReentrant == Init /\ [][NextReentrant]_vars

-----------------------------------------------------------------------------
\* Properties of the queue.

LiveIds == Keys(pendingUploads)

ProcessingIds == {id \in LiveIds : StatusOf(id) = "processing"}

PendingIds == {id \in LiveIds : StatusOf(id) = "pending"}

\* The program state of the queue, without the history variables.
queueState == <<pendingUploads, processingUploads, callbacks, inflight, revoked>>

\* C1: in every reachable state at most MAX_CONCURRENT_UPLOADS live jobs have
\* status 'processing' and the processingUploads set holds at most that many ids.
C1_ProcessingWithinCap ==
    /\ Cardinality(ProcessingIds) <= MAX_CONCURRENT_UPLOADS
    /\ Cardinality(processingUploads) <= MAX_CONCURRENT_UPLOADS

\* The cap is reached and a further job is held back as 'pending'.
C1_Witness ==
    /\ Cardinality(ProcessingIds) = MAX_CONCURRENT_UPLOADS
    /\ PendingIds # {}

\* C4: a job removed by removeUpload is never in the map again and no snapshot
\* of it is passed to an observer, also when its in-flight attempt resolves.
C4_RemovedStaysGone ==
    \A id \in removed :
        /\ ~Has(pendingUploads, id)
        /\ \A i \in 1..Len(emitted) : emitted[i].id # id

\* The extraction attempt of a job removed while 'processing' has just resolved.
C4_Witness ==
    /\ lastOp = [op |-> "resolve", target |-> "removed"]
    /\ \E id \in removed : inflight[id] = 0

\* C5: the observer of a job is called exactly once for every status change of
\* that job, in the order of the changes and with the new status, and never for
\* a job that has been removed.
C5_NotifiedOncePerChange ==
    /\ Len(emitted) = Len(written)
    /\ \A i \in 1..Len(written) :
          /\ written[i].from # written[i].to
          /\ i <= Len(emitted)
          /\ emitted[i].id = written[i].id
          /\ emitted[i].status = written[i].to
    /\ \A i \in 1..Len(emitted) : emitted[i].id \notin removed

\* A retry found a free slot: one job changed failed -> pending -> processing
\* in one handler and its observer was called for both changes.
C5_Witness ==
    /\ lastOp = [op |-> "retryUpload", target |-> "failed"]
    /\ Len(emitted) = 2
    /\ emitted[1].id = emitted[2].id
    /\ emitted[1].status = "pending"
    /\ emitted[2].status = "processing"

LegalChanges ==
    { <<"pending", "processing">>, <<"processing", "completed">>,
      <<"processing", "failed">>, <<"failed", "pending">> }

\* Every status write w of a handler op is one of the four legal changes, and
\* a write of 'pending' is made by retryUpload only.
WritesLegal(w, op) ==
    \A i \in 1..Len(w) :
        /\ <<w[i].from, w[i].to>> \in LegalChanges
        /\ w[i].to = "pending" => op = "retryUpload"

\* Between two handlers a live job keeps its status or makes one legal change,
\* or is retried and admitted at once (failed -> pending -> processing); a
\* completed job stays completed while it is in the map.
StepLegal ==
    \A i \in 1..Len(pendingUploads) :
        LET id == pendingUploads[i].id
            a == pendingUploads[i].status
        IN Has(pendingUploads', id) =>
              LET b == MapGet(pendingUploads', id).status
              IN \/ a = b
                 \/ <<a, b>> \in LegalChanges
                 \/ /\ a = "failed"
                    /\ b = "processing"
                    /\ written' = << [id |-> id, from |-> "failed", to |-> "pending"],
                                     [id |-> id, from |-> "pending", to |-> "processing"] >>

C7_RetryOnlyFromFailed ==
    [][(lastOp'.op = "retryUpload" /\ lastOp'.target # "failed") =>
          (UNCHANGED queueState /\ written' = <<>> /\ emitted' = <<>>)]_vars

\* retryUpload has just been called on a 'pending' job.
C7_Witness == lastOp = [op |-> "retryUpload", target |-> "pending"]

\* C8: removeUpload on an id that was removed before or was never submitted
\* changes nothing and revokes no preview handle.
C8_RemoveIdempotent ==
    [][(lastOp'.op = "removeUpload" /\ lastOp'.target \in {"removed", "unknown"}) =>
          (UNCHANGED queueState /\ emitted' = <<>>)]_vars

\* removeUpload has just been called on an id that was already removed.
C8_Witness ==
    /\ lastOp = [op |-> "removeUpload", target |-> "removed"]
    /\ \E id \in removed : revoked[id] = 1

\* No attempt has resolved: every submitted job is live and pending or processing.
NoneResolved ==
    /\ Len(pendingUploads) = nextId - 1
    /\ \A id \in LiveIds : StatusOf(id) \in {"pending", "processing"}

\* C9: after n submissions and no completion the min(n, 5) jobs submitted
\* first are 'processing' and the others 'pending'; as attempts resolve, jobs
\* are admitted in submission order (the admitted jobs are always the oldest).
C9_Backpressure ==
    /\ NoneResolved =>
          \A id \in LiveIds :
              StatusOf(id) = IF id <= MAX_CONCURRENT_UPLOADS THEN "processing" ELSE "pending"
    /\ \A a \in LiveIds, b \in LiveIds :
          (a < b /\ StatusOf(b) # "pending") => StatusOf(a) # "pending"

\* Seven jobs submitted, none resolved: five are processing, two are pending.
C9_Witness ==
    /\ nextId - 1 = MAX_CONCURRENT_UPLOADS + 2
    /\ NoneResolved
    /\ Cardinality(PendingIds) = 2

\* C10: if A was submitted before B and both are 'pending', B is not moved to
\* 'processing' while A stays 'pending'.
C10_FifoAdmission ==
    [][\A j \in 1..Len(pendingUploads) :
          LET B == pendingUploads[j]
          IN (B.status = "pending" /\ StatusIn(pendingUploads', B.id) = "processing") =>
                \A i \in 1..Len(pendingUploads) :
                    LET A == pendingUploads[i]
                    IN (A.id < B.id /\ A.status = "pending") =>
                          StatusIn(pendingUploads', A.id) # "pending"]_vars

\* A completion has just admitted the older of two pending jobs.
C10_Witness ==
    /\ lastOp.op = "resolve"
    /\ \E a \in ProcessingIds, b \in PendingIds :
          /\ a < b
          /\ \E i \in 1..Len(written) : written[i] = [id |-> a, from |-> "pending", to |-> "processing"]

\* C3 as stated: a retried job goes to the back of the backlog, so when it is
\* admitted every job that was queued at the moment of the retry has been
\* admitted before it.
C3_RetriedGoesToBack ==
    [][\A r \in requeued :
          StatusIn(pendingUploads', r) = "processing" =>
              \A b \in queuedAtRetry[r] : StatusIn(pendingUploads', b) # "pending"]_vars

\* C3 as amended: a retried job keeps its place in submission order. Of the
\* jobs queued at the moment of the retry, those submitted before it are
\* admitted before it, and those submitted after it are not admitted while it
\* is pending.
C3_RetriedKeepsPosition ==
    [][\A r \in requeued :
          /\ StatusIn(pendingUploads', r) = "processing" =>
                \A b \in queuedAtRetry[r] : b > r
          /\ \A b \in queuedAtRetry[r] :
                b > r => StatusIn(pendingUploads', b) # "processing"]_vars

\* A failed job has just been retried while a job submitted after it was
\* queued: the retried job waits in front of it.
C3_Witness ==
    /\ lastOp = [op |-> "retryUpload", target |-> "failed"]
    /\ \E r \in requeued : \E b \in queuedAtRetry[r] : r < b /\ StatusOf(b) = "pending"

\* A job submitted before b changes from 'failed' to queued or admitted: it is retried.
EarlierRetried(b) ==
    \E a \in 1..(b - 1) :
        /\ StatusOf(a) = "failed"
        /\ StatusIn(pendingUploads', a) \in {"pending", "processing"}

\* C2 as stated: with every attempt in flight eventually resolving, every job
\* that is 'pending' is eventually 'processing', whatever is retried.
C2_QueuedEventuallyAdmitted ==
    \A b \in Ids : (StatusOf(b) = "pending") ~> (StatusOf(b) = "processing")

\* C2 as amended: with every attempt in flight eventually resolving, every job
\* that is 'pending' is eventually 'processing' provided that from some point
\* on no job submitted before it is retried.
C2_AdmittedUnlessOvertaken ==
    \A b \in Ids :
        (<>[][~EarlierRetried(b)]_vars) =>
            ((StatusOf(b) = "pending") ~> (StatusOf(b) = "processing"))

\* Job b is queued behind a job a that was submitted before it and has been
\* retried: a is 'pending' although a job submitted after it was admitted.
C2_Witness ==
    \E a \in PendingIds, b \in PendingIds :
        /\ a < b
        /\ \E c \in LiveIds : a < c /\ StatusOf(c) # "pending"

-----------------------------------------------------------------------------
\* Results, errors and previews.

\* C12: a live job has its addresses defined exactly when it is 'completed'
\* and its error defined exactly when it is 'failed'.
C12_FieldsMatchStatus ==
    \A i \in 1..Len(pendingUploads) :
        LET u == pendingUploads[i]
        IN /\ (u.addresses # NONE) <=> (u.status = "completed")
           /\ (u.error # NONE) <=> (u.status = "failed")

\* A failed job has just been retried and another job is completed with an
\* empty result.
C12_Witness ==
    /\ lastOp = [op |-> "retryUpload", target |-> "failed"]
    /\ \E id \in LiveIds : StatusOf(id) \in {"pending", "processing"}
    /\ \E id \in CompletedIds : MapGet(pendingUploads, id).addresses = Some(<<>>)

\* C13: the preview of a job has been revoked once if the job has been
\* removed and has not been revoked otherwise.
C13_RevokedOnceOnRemoval ==
    \A id \in Ids : revoked[id] = IF id \in removed THEN 1 ELSE 0

\* The attempt of a removed job has resolved and removeUpload has been called
\* on the removed job again.
C13_Witness ==
    /\ lastOp = [op |-> "removeUpload", target |-> "removed"]
    /\ \E id \in removed : revoked[id] = 1 /\ inflight[id] = 0
    /\ \E id \in LiveIds : StatusOf(id) \in {"completed", "failed"}

\* C14: when addUpload returns, the job of the new id is in the map with its
\* callback, 'pending' or 'processing' with its attempt still in flight; when
\* the preview allocation throws, the queue is unchanged and no observer is called.
C14_AddUploadReturnsAtOnce ==
    [][/\ (lastOp'.op = "addUpload" /\ lastOp'.target = "none") =>
             /\ Has(pendingUploads', nextId)
             /\ nextId \in callbacks'
             /\ StatusIn(pendingUploads', nextId) \in {"pending", "processing"}
             /\ StatusIn(pendingUploads', nextId) = "processing" => inflight'[nextId] = 1
       /\ (lastOp'.op = "addUpload" /\ lastOp'.target = "throws") =>
             (UNCHANGED queueState /\ written' = <<>> /\ emitted' = <<>>)]_vars

\* addUpload has just thrown while other jobs are in the map.
C14_Witness ==
    /\ lastOp = [op |-> "addUpload", target |-> "throws"]
    /\ ProcessingIds # {}

\* An extraction that succeeds with no address.
EmptyResult == [ok |-> TRUE, addresses |-> <<>>, isError |-> FALSE, message |-> ""]

\* C15: the attempt of a live job that resolves with an empty address list
\* makes the job 'completed' with an empty result and no error.
C15_EmptyResultCompletes ==
    [][\A id \in Ids :
          (StatusOf(id) = "processing" /\ Resolve(id, EmptyResult)) =>
              /\ StatusIn(pendingUploads', id) = "completed"
              /\ MapGet(pendingUploads', id).addresses = Some(<<>>)
              /\ MapGet(pendingUploads', id).error = NONE]_vars

\* An attempt has just resolved and left its job completed with an empty result.
C15_Witness ==
    /\ lastOp = [op |-> "resolve", target |-> "processing"]
    /\ \E i \in 1..Len(emitted) :
          emitted[i].status = "completed" /\ emitted[i].addresses = Some(<<>>)

-----------------------------------------------------------------------------
\* Sweeping, failures and admissions.

\* C16: a 'failed' job stays 'failed' in every step, except that retryUpload
\* on it makes it 'pending' and removeUpload deletes it; the only handler that
\* changes a status from 'failed' is retryUpload, and it changes it to 'pending'.
C16_NoImplicitRetry ==
    [][/\ \A i \in 1..Len(written') :
             written'[i].from = "failed" =>
                 (written'[i].to = "pending" /\ lastOp'.op = "retryUpload")
       /\ \A i \in 1..Len(pendingUploads) :
             LET u == pendingUploads[i]
                 b == StatusIn(pendingUploads', u.id)
             IN u.status = "failed" =>
                   \/ b = "failed"
                   \/ /\ lastOp'.op = "retryUpload"
                      /\ written' # <<>>
                      /\ written'[1] = [id |-> u.id, from |-> "failed", to |-> "pending"]
                   \/ /\ lastOp'.op = "removeUpload"
                      /\ b = "absent"]_vars

\* The attempt of a job has just failed and the sweep that followed admitted
\* the waiting job and not the failed one.
C16_Witness ==
    /\ lastOp.op = "resolve"
    /\ \E f \in LiveIds, a \in LiveIds :
          /\ StatusOf(f) = "failed"
          /\ written = << [id |-> f, from |-> "processing", to |-> "failed"],
                          [id |-> a, from |-> "pending", to |-> "processing"] >>

\* C17: between handlers no live job is 'pending' while fewer than
\* MAX_CONCURRENT_UPLOADS jobs are 'processing'.
C17_FreedSlotsSwept ==
    PendingIds # {} =>
        /\ Cardinality(ProcessingIds) >= MAX_CONCURRENT_UPLOADS
        /\ Cardinality(processingUploads) >= MAX_CONCURRENT_UPLOADS

\* C18: the attempt of a live job that ends with an error makes the job
\* 'failed' with the message of the Error, or 'Unknown error occurred' for a
\* thrown value that is not an Error; the handler ends normally, with the
\* slot of the job freed.
C18_ErrorsBecomeFailed ==
    [][\A id \in Ids, o \in Outcomes :
          (StatusOf(id) = "processing" /\ ~o.ok /\ Resolve(id, o)) =>
              /\ StatusIn(pendingUploads', id) = "failed"
              /\ MapGet(pendingUploads', id).error =
                    Some(IF o.isError THEN o.message ELSE "Unknown error occurred")
              /\ MapGet(pendingUploads', id).addresses = NONE
              /\ id \notin processingUploads'
              /\ inflight'[id] = 0]_vars

\* A job has failed with a thrown value that is not an Error and the queue
\* has accepted a submission after that.
C18_Witness ==
    /\ lastOp = [op |-> "addUpload", target |-> "none"]
    /\ \E id \in LiveIds :
          /\ StatusOf(id) = "failed"
          /\ MapGet(pendingUploads, id).error = Some("Unknown error occurred")
          /\ id + 1 < nextId

\* C19: when the attempt of id resolves, id is not in the processing set
\* afterwards, and if a job was 'pending' and a slot is free once id has left
\* the set, the pending job submitted first is 'processing' with its attempt
\* started in the same step.
C19_ResolutionSweeps ==
    [][lastOp'.op = "resolve" =>
          \A id \in Ids :
              inflight'[id] < inflight[id] =>
                  /\ id \notin processingUploads'
                  /\ (/\ PendingIds # {}
                      /\ Cardinality(processingUploads \ {id}) < MAX_CONCURRENT_UPLOADS) =>
                         LET oldest == MinOf(PendingIds)
                         IN /\ StatusIn(pendingUploads', oldest) = "processing"
                            /\ oldest \in processingUploads'
                            /\ inflight'[oldest] = inflight[oldest] + 1]_vars

\* The attempt of a removed job has just resolved and the sweep admitted the
\* older of two waiting jobs.
C19_Witness ==
    /\ lastOp = [op |-> "resolve", target |-> "removed"]
    /\ PendingIds # {}
    /\ \E a \in ProcessingIds :
          /\ written = << [id |-> a, from |-> "pending", to |-> "processing"] >>
          /\ \A b \in PendingIds : a < b

-----------------------------------------------------------------------------
\* The retry cycle.

\* retryUpload on a job that is 'failed' with its error set: the first status
\* change of the handler is failed -> pending of that job, the first snapshot
\* passed to its observer is the job as 'pending' without error, and the
\* handler leaves the job 'pending', or 'processing' after the two changes
\* failed -> pending -> processing.
RetryMakesPending ==
    \A id \in LiveIds :
        StatusOf(id) = "failed" =>
            LET upload == MapGet(pendingUploads, id)
                q == retryUpload(Cur, id)
                after == MapGet(q.pendingUploads, id)
                changes == SelectSeq(q.written, LAMBDA w : w.id = id)
            IN /\ upload.error # NONE
               /\ q.written # <<>>
               /\ q.written[1] = [id |-> id, from |-> "failed", to |-> "pending"]
               /\ q.emitted # <<>>
               /\ q.emitted[1] = [upload EXCEPT !.status = "pending", !.error = NONE]
               /\ after.error = NONE /\ after.addresses = NONE
               /\ \/ after.status = "pending" /\ Len(changes) = 1
                  \/ /\ after.status = "processing"
                     /\ changes = << [id |-> id, from |-> "failed", to |-> "pending"],
                                     [id |-> id, from |-> "pending", to |-> "processing"] >>

\* A job leaves 'failed' only by the handler retryUpload called on it.
LeavesFailedByRetry ==
    \A id \in LiveIds :
        (StatusOf(id) = "failed" /\ StatusIn(pendingUploads', id) # "failed") =>
            /\ pendingUploads' = retryUpload(Cur, id).pendingUploads
            /\ StatusIn(pendingUploads', id) \in {"pending", "processing"}

\* C11 as stated: a failed job that is retried becomes 'pending' without
\* error, with a notification; it is never 'processing' or 'completed' straight
\* from 'failed'; with attempts resolving, a retried job that waits is
\* eventually 'processing', and a 'processing' job eventually 'completed' or
\* 'failed'.
C11_RetryCycle ==
    /\ []RetryMakesPending
    /\ [][LeavesFailedByRetry]_vars
    /\ \A b \in Ids : (b \in requeued) ~> (StatusOf(b) = "processing")
    /\ \A b \in Ids : (StatusOf(b) = "processing") ~> (StatusOf(b) \in {"completed", "failed"})

\* C11 as amended: the same, where a retried job that waits is eventually
\* 'processing' provided that from some point on no job submitted before it
\* is retried.
C11_RetryCycleUnlessOvertaken ==
    /\ []RetryMakesPending
    /\ [][LeavesFailedByRetry]_vars
    /\ \A b \in Ids :
          (<>[][~EarlierRetried(b)]_vars) => ((b \in requeued) ~> (StatusOf(b) = "processing"))
    /\ \A b \in Ids : (StatusOf(b) = "processing") ~> (StatusOf(b) \in {"completed", "failed"})

\* A retried job waits behind a retried job that was submitted before it
\* while five jobs are processing.
C11_Witness ==
    /\ Cardinality(ProcessingIds) = MAX_CONCURRENT_UPLOADS
    /\ \E a \in requeued, b \in requeued : a < b

-----------------------------------------------------------------------------

\* C21: between handlers the processingUploads set is exactly the set of live
\* jobs whose status is 'processing'.
C21_SlotsMatchRecords == processingUploads = ProcessingIds

\* A 'processing' job has just been removed while other jobs are processing
\* and a job has completed.
C21_Witness ==
    /\ lastOp = [op |-> "removeUpload", target |-> "processing"]
    /\ ProcessingIds # {}
    /\ CompletedIds # {}

RECURSIVE SumOver(_, _)
SumOver(f, S) ==
    IF S = {} THEN 0
    ELSE LET x == CHOOSE y \in S : TRUE IN f[x] + SumOver(f, S \ {x})

\* The extraction calls started and not yet resolved, those of removed jobs included.
AttemptsInFlight == SumOver(inflight, Ids)

\* C22: the number of extraction calls in flight, the calls of jobs removed
\* while 'processing' included, never exceeds MAX_CONCURRENT_UPLOADS.
C22_CallsWithinCap == AttemptsInFlight <= MAX_CONCURRENT_UPLOADS

\* C23: every job whose status is 'processing' has an extraction attempt in
\* flight, whatever its observer does when it is notified.
C23_ProcessingHasAttempt == \A id \in ProcessingIds : inflight[id] > 0

\* C24: when the extraction call of a live job returns successfully, the job
\* is 'completed' with the returned addresses after that step and no 'failed'
\* snapshot of it is passed to its observer, whatever the observer does.
C24_SuccessCompletes ==
    [][\A id \in LiveIds, o \in SomeOutcomes :
          (o.ok /\ Resolve(id, o)) =>
              /\ StatusIn(pendingUploads', id) = "completed"
              /\ MapGet(pendingUploads', id).addresses = Some(o.addresses)
              /\ \A i \in 1..Len(emitted') :
                    emitted'[i].id = id => emitted'[i].status # "failed"]_vars

\* The status writes of the handler that just ran, for job id.
WritesOf(id) == SelectSeq(written', LAMBDA w : w.id = id)

\* C25: when the attempt of a job whose observer calls retryUpload(id) from
\* inside the 'failed' notification fails, the job is 'failed' and then
\* 'pending' in that handler, its error cleared; it is 'processing' again only
\* by an admission that starts one new attempt; between handlers the jobs in
\* the processing set are exactly the 'processing' jobs, at most
\* MAX_CONCURRENT_UPLOADS, each with exactly one attempt in flight.
C25_ReentrantRetry ==
    /\ [](/\ Cardinality(ProcessingIds) <= MAX_CONCURRENT_UPLOADS
          /\ processingUploads = ProcessingIds
          /\ \A id \in LiveIds :
                inflight[id] = IF StatusOf(id) = "processing" THEN 1 ELSE 0)
    /\ [][\A id \in LiveIds, o \in SomeOutcomes :
             (~o.ok /\ observers[id] = "retriesOnFailed" /\ Resolve(id, o)) =>
                 /\ Len(WritesOf(id)) \in {2, 3}
                 /\ WritesOf(id)[1] = [id |-> id, from |-> "processing", to |-> "failed"]
                 /\ WritesOf(id)[2] = [id |-> id, from |-> "failed", to |-> "pending"]
                 /\ Len(WritesOf(id)) = 3 =>
                       WritesOf(id)[3] = [id |-> id, from |-> "pending", to |-> "processing"]
                 /\ StatusIn(pendingUploads', id) =
                       (IF Len(WritesOf(id)) = 3 THEN "processing" ELSE "pending")
                 /\ MapGet(pendingUploads', id).error = NONE
                 /\ (id \in processingUploads') = (Len(WritesOf(id)) = 3)]_vars

\* A job has just failed and retried itself from inside the notification while
\* the cap was full and a job submitted later was waiting: it was admitted
\* again once its finished attempt had left the processing set.
C25_Witness ==
    /\ lastOp = [op |-> "resolve", target |-> "processing"]
    /\ Len(written) = 3
    /\ written[1].to = "failed"
    /\ written[2] = [id |-> written[1].id, from |-> "failed", to |-> "pending"]
    /\ written[3] = [id |-> written[1].id, from |-> "pending", to |-> "processing"]
    /\ Cardinality(ProcessingIds) = MAX_CONCURRENT_UPLOADS
    /\ PendingIds # {}

\* C26: clearCompleted deletes exactly the jobs that are 'completed' when it is
\* called, revokes the preview of each of them once and deletes its callback;
\* the other jobs keep their records and their order in the map, and the
\* processing set and the attempts in flight are unchanged; no observer is called.
C26_ClearsExactlyCompleted ==
    [][lastOp'.op = "clearCompleted" =>
          /\ pendingUploads' = SelectSeq(pendingUploads, LAMBDA u : u.status # "completed")
          /\ callbacks' = callbacks \ CompletedIds
          /\ revoked' = [id \in Ids |-> IF id \in CompletedIds THEN revoked[id] + 1
                                        ELSE revoked[id]]
          /\ \A id \in CompletedIds : revoked'[id] = 1
          /\ processingUploads' = processingUploads
          /\ inflight' = inflight
          /\ written' = <<>> /\ emitted' = <<>>]_vars

\* clearCompleted has just deleted completed jobs while one job is failed,
\* five are processing and one is pending.
C26_Witness ==
    /\ lastOp = [op |-> "clearCompleted", target |-> "none"]
    /\ removed # {}
    /\ \E id \in LiveIds : StatusOf(id) = "failed"
    /\ Cardinality(ProcessingIds) = MAX_CONCURRENT_UPLOADS

-----------------------------------------------------------------------------
\* Properties of the App (part_000).

\* The ids of the uploads the App's list shows.
ShownIds == {appPendingUploads[i].id : i \in 1..Len(appPendingUploads)}

\* C27: the App's pendingUploads list holds at most one entry per upload id.
C27_OneEntryPerUpload ==
    \A i \in 1..Len(appPendingUploads), j \in 1..Len(appPendingUploads) :
        appPendingUploads[i].id = appPendingUploads[j].id => i = j

\* The stops the observer adds for the addresses of upload id.
StopsOf(id, addresses) ==
    [i \in 1..Len(addresses) |-> [upload |-> id, address |-> addresses[i]]]

\* Upload id is completed without addresses, or failed.
KeptForUser(id) ==
    \/ StatusOf(id) = "failed"
    \/ StatusOf(id) = "completed" /\ MapGet(pendingUploads, id).addresses = Some(<<>>)

\* C28: when an upload completes with at least one address its addresses are
\* appended to the stops once and a removal is scheduled, after which the
\* upload eventually is neither in the list nor in the queue; an upload that
\* completed without addresses or failed leaves the list and the queue only by
\* dismissUpload, and no removal is scheduled for it; a scheduled removal that
\* runs after the upload was dismissed changes neither the queue nor the list
\* nor the stops and revokes nothing.
C28_AutoRemoval ==
    /\ [][\A id \in LiveIds, o \in Outcomes :
             Resolve(id, o) =>
                 IF o.ok /\ o.addresses # <<>>
                 THEN /\ stops' = stops \o StopsOf(id, o.addresses)
                      /\ timers' = [timers EXCEPT ![id] = @ + 1]
                 ELSE stops' = stops /\ timers' = timers]_vars
    /\ [][lastOp'.op # "resolve" => stops' = stops]_vars
    /\ \A id \in Ids : (timers[id] > 0) ~> (id \notin ShownIds /\ id \notin LiveIds)
    /\ [](\A id \in LiveIds : KeptForUser(id) => timers[id] = 0)
    /\ [][\A id \in LiveIds :
             (KeptForUser(id) /\ (id \notin Keys(pendingUploads') \/ (id \in ShownIds /\ id \notin {appPendingUploads'[i].id : i \in 1..Len(appPendingUploads')}))) =>
                 lastOp'.op = "dismissUpload"]_vars
    /\ [][(lastOp'.op = "autoRemove" /\ lastOp'.target = "removed") =>
             UNCHANGED <<queueState, appPendingUploads, stops>>]_vars

\* The scheduled removal of an upload has just run after the user had
\* dismissed that upload, while an upload completed without addresses is shown.
C28_Witness ==
    /\ lastOp = [op |-> "autoRemove", target |-> "removed"]
    /\ \E id \in LiveIds : StatusOf(id) = "completed" /\ KeptForUser(id) /\ id \in ShownIds
    /\ Len(stops) = 1

-----------------------------------------------------------------------------
\* Properties of extractAddressesFromWebhook (part_001).

\* The reply carries no address: an array or an object whose list has no
\* string with text.
EmptyList(r) ==
    \/ r.type = "array" /\ \A i \in 1..Len(r.array) :
                              ~r.array[i].isString \/ Trim(r.array[i].text) = ""
    \/ /\ r.type = "object" /\ r.success # "false"
       /\ \E list \in {IF r.addresses # NONE THEN r.addresses[1]
                       ELSE IF r.data # NONE THEN r.data[1] ELSE <<NotStr>>} :
             \A i \in 1..Len(list) : list[i].isString /\ Trim(list[i].text) = ""

\* C29: a call sends at most 3 requests; a further request is sent only after
\* a 429 or a reply without addresses; the call ends, with a list of
\* non-blank strings or with an Error; after a third reply without addresses
\* it resolves with the empty list, after a third 429 it rejects.
C29_WebhookTerminates ==
    /\ [](/\ webhook.requests <= 3
          /\ webhook.retryCount = (IF webhook.requests = 0 THEN 0 ELSE webhook.requests - 1)
          /\ webhook.pc = "sleeping" =>
                LET last == webhook.responses[Len(webhook.responses)]
                IN (last.type = "status" /\ last.status = 429) \/ EmptyList(last)
          /\ webhook.pc = "done" =>
                LET last == webhook.responses[Len(webhook.responses)]
                    outcome == webhook.outcome[1]
                IN /\ webhook.outcome # NONE
                   /\ outcome.ok =>
                         \A i \in 1..Len(outcome.addresses) : Trim(outcome.addresses[i]) # ""
                   /\ ~outcome.ok => outcome.isError /\ outcome.message # ""
                   /\ (Len(webhook.responses) = 3 /\ EmptyList(last)) =>
                         outcome.ok /\ outcome.addresses = <<>>
                   /\ (Len(webhook.responses) = 3 /\ last.type = "status") => ~outcome.ok)
    /\ [][webhook'.requests > webhook.requests =>
             \/ webhook.pc \in {"idle", "done"}
             \/ webhook.pc = "sleeping"]_vars
    /\ (webhook.pc = "fetching") ~> (webhook.pc = "done")

\* A call has ended with the empty list after a 429, a reply without
\* addresses and a third reply without addresses.
C29_Witness ==
    /\ webhook.pc = "done"
    /\ Len(webhook.responses) = 3
    /\ webhook.responses[1].status = 429
    /\ EmptyList(webhook.responses[2])
    /\ EmptyList(webhook.responses[3])
    /\ webhook.outcome = Some([ok |-> TRUE, addresses |-> <<>>, isError |-> FALSE, message |-> ""])

-----------------------------------------------------------------------------
\* C30: whatever saveRouteToHistory, deleteRouteFromHistory, toggleFavorite and
\* updateRouteName calls were made, localStorage holds at most MAX_HISTORY
\* routes, and a saveRouteToHistory call that returns an id leaves the route
\* with that id in the stored list.
C30_HistoryCapped ==
    /\ [](storage # NONE => Len(storage[1]) <= MAX_HISTORY)
    /\ [][SaveRouteToHistory(0, FALSE) \/ SaveRouteToHistory(1, FALSE) =>
             FoundIn(storage'[1], nextRoute)]_vars

\* A save into a full history that holds a favourite, an older route having
\* been dropped for it.
C30_Witness ==
    /\ lastCall.op = "saveRouteToHistory" /\ lastCall.result = "id"
    /\ Len(storage[1]) = MAX_HISTORY
    /\ nextRoute - 1 > MAX_HISTORY
    /\ \E i \in 1..Len(storage[1]) : storage[1][i].isFavorite

====
